---- MODULE Spec2Model ----
(***************************************************************************)
(* ply-rs writer (src/writer.rs): the Writer with its configured newline,  *)
(* the header emitter, the type encoder and the payload emitter for the    *)
(* ascii, binary big-endian and binary little-endian encodings.            *)
(*                                                                         *)
(* Bytes are integers 0..255 and text is the sequence of its ASCII codes.  *)
(* Order-preserving maps (KeyMap) are sequences of [name, ...] records.    *)
(* Every write operation is given a sink of its own; the sink's behaviour  *)
(* (which write fails, which text write is accepted short, whether flush   *)
(* fails) is an input of the operation.                                    *)
(***************************************************************************)
EXTENDS Integers, Sequences, FiniteSets

VARIABLES
    new_line,   \* Writer.new_line: the bytes of the configured line terminator
    policy,     \* the NewLine passed to the most recent set_newline ("none" before)
    call,       \* the operation performed last
    arg,        \* the inputs of that operation
    sink,       \* the behaviour of the sink handed to that operation
    out,        \* the bytes the sink of that operation accepted, in order
    ops,        \* the sink operations that operation issued, in order
    ret         \* what that operation returned

vars == <<new_line, policy, call, arg, sink, out, ops, ret>>

----------------------------------------------------------------------------
(* Bounds of the model *)

MaxFailAt == 24       \* the sink's 1st..24th write may be the one that fails
MaxShortAt == 3       \* the sink may accept one text write among its first 3 short
MaxListLen == 2       \* items in a list value
MaxComments == 2      \* comments, and obj_infos, in a header

----------------------------------------------------------------------------
(* Text literals of the source *)

STR_ply == <<112, 108, 121>>                                   \* "ply"
STR_format == <<102, 111, 114, 109, 97, 116, 32>>               \* "format "
STR_ascii == <<97, 115, 99, 105, 105>>                          \* "ascii"
STR_binary_big_endian == <<98, 105, 110, 97, 114, 121, 95, 98, 105, 103, 95, 101, 110, 100, 105, 97, 110>>
STR_binary_little_endian == <<98, 105, 110, 97, 114, 121, 95, 108, 105, 116, 116, 108, 101, 95, 101, 110, 100, 105, 97, 110>>
STR_comment == <<99, 111, 109, 109, 101, 110, 116, 32>>         \* "comment "
STR_obj_info == <<111, 98, 106, 95, 105, 110, 102, 111, 32>>    \* "obj_info "
STR_element == <<101, 108, 101, 109, 101, 110, 116, 32>>        \* "element "
STR_property == <<112, 114, 111, 112, 101, 114, 116, 121, 32>>  \* "property "
STR_end_header == <<101, 110, 100, 95, 104, 101, 97, 100, 101, 114>>  \* "end_header"
STR_list == <<108, 105, 115, 116, 32>>                          \* "list "
STR_char == <<99, 104, 97, 114>>
STR_uchar == <<117, 99, 104, 97, 114>>
STR_short == <<115, 104, 111, 114, 116>>
STR_ushort == <<117, 115, 104, 111, 114, 116>>
STR_int == <<105, 110, 116>>
STR_uint == <<117, 105, 110, 116>>
STR_float == <<102, 108, 111, 97, 116>>
STR_double == <<100, 111, 117, 98, 108, 101>>
STR_space == <<32>>                                             \* " "
STR_dot == <<46>>                                               \* "."
STR_minus == <<45>>                                             \* "-"
STR_CR == <<13>>                                                \* "\r"
STR_LF == <<10>>                                                \* "\n"
STR_CRLF == <<13, 10>>                                          \* "\r\n"

(* Error messages of the source (all of ErrorKind::InvalidInput) *)
ERR_hdr_float == "List index can not be of type float."
ERR_hdr_double == "List index can not be of type double."
ERR_hdr_list == "List index can not be of type list."
ERR_not_list == "Property definition must be of type List."
ERR_bin_float == "List index must have integer type, Float found."
ERR_bin_double == "List index must have integer type, Double found."
ERR_bin_list == "List index must have integer type, List found."
ERR_io == "io"    \* a failure of the sink itself

----------------------------------------------------------------------------
(* The sink: std::io::Write as the writer uses it *)

\* An operation starts on an empty sink with nothing returned yet.
Fresh(sk) ==
    [out |-> <<>>, ops |-> <<>>, sink |-> sk, res |-> "Ok", n |-> 0, msg |-> ""]

\* `let mut written = 0;`
Begin(s) == [s EXCEPT !.res = "Ok", !.n = 0, !.msg = ""]

\* `written += try!(B)`: a holds Ok(written) or the error already returned
Try(a, B(_)) ==
    IF a.res # "Ok" THEN a
    ELSE LET b == B(a)
         IN  IF b.res = "Ok" THEN [b EXCEPT !.n = a.n + b.n] ELSE b

\* Err(Error::new(ErrorKind::InvalidInput, msg))
Fail(s, msg) == [s EXCEPT !.res = "Err", !.n = 0, !.msg = msg]

\* a panic (unwrap on None or Err, indexing a map with a missing key)
Panic(s) == [s EXCEPT !.res = "panic", !.n = 0, !.msg = "panic"]

\* variant of Write: the bytes offered are counted, not the bytes accepted
Write_counting_offered(s, data) ==
    LET i == Len(s.ops) + 1
        acc == IF i = s.sink.failAt THEN -1
               ELSE IF i = s.sink.shortAt /\ Len(data) > 1 THEN 1
               ELSE Len(data)
        op == [op |-> "write", data |-> data, acc |-> acc]
    IN  IF acc < 0
        THEN [s EXCEPT !.ops = Append(@, op), !.res = "Err", !.n = 0, !.msg = ERR_io]
        ELSE [s EXCEPT !.ops = Append(@, op), !.out = @ \o SubSeq(data, 1, acc),
                       !.res = "Ok", !.n = Len(data), !.msg = ""]

\* out.write(data): the sink accepts all of data, or a single byte of it, or fails;
\* Ok(n) carries the number of bytes accepted.
Write(s, data) ==
    LET i == Len(s.ops) + 1
        acc == IF i = s.sink.failAt THEN -1
               ELSE IF i = s.sink.shortAt /\ Len(data) > 1 THEN 1
               ELSE Len(data)
        op == [op |-> "write", data |-> data, acc |-> acc]
    IN  IF acc < 0
        THEN [s EXCEPT !.ops = Append(@, op), !.res = "Err", !.n = 0, !.msg = ERR_io]
        ELSE [s EXCEPT !.ops = Append(@, op), !.out = @ \o SubSeq(data, 1, acc),
                       !.res = "Ok", !.n = acc, !.msg = ""]

\* out.write_i8 .. out.write_f64 (byteorder): write_all of the encoded value, so the
\* whole field is delivered or the call fails; the caller then counts the field's width.
WriteAll(s, data) ==
    LET i == Len(s.ops) + 1
        acc == IF i = s.sink.failAt THEN -1 ELSE Len(data)
        op == [op |-> "write_all", data |-> data, acc |-> acc]
    IN  IF acc < 0
        THEN [s EXCEPT !.ops = Append(@, op), !.res = "Err", !.n = 0, !.msg = ERR_io]
        ELSE [s EXCEPT !.ops = Append(@, op), !.out = @ \o data,
                       !.res = "Ok", !.n = Len(data), !.msg = ""]

\* out.flush()
Flush(s) ==
    LET acc == IF s.sink.flushFails THEN -1 ELSE 0
        op == [op |-> "flush", data |-> <<>>, acc |-> acc]
    IN  IF acc < 0
        THEN [s EXCEPT !.ops = Append(@, op), !.res = "Err", !.n = 0, !.msg = ERR_io]
        ELSE [s EXCEPT !.ops = Append(@, op), !.res = "Ok", !.n = 0, !.msg = ""]

----------------------------------------------------------------------------
(* Property types and property values *)

\* PropertyType: <<kind>> for a scalar, <<"List", index_type, value_type>> for a list
ScalarKinds == {"Char", "UChar", "Short", "UShort", "Int", "UInt", "Float", "Double"}
Scalar(k) == <<k>>
ListOf(i, v) == <<"List", i, v>>
\* Property: <<kind, value>>; a Float is its IEEE-754 single bit pattern, a Double
\* the <<high, low>> 32-bit words of its bit pattern, a List the sequence of its items
Val(k, v) == <<k, v>>

\* ToString::to_string of an unsigned integer: base-10 digits
RECURSIVE ToDec(_)
ToDec(n) == IF n < 10 THEN <<48 + n>> ELSE ToDec(n \div 10) \o <<48 + (n % 10)>>

\* to_string of a signed integer
IntToString(v) == IF v < 0 THEN STR_minus \o ToDec(-v) ELSE ToDec(v)

\* Display of a positive float that is a multiple of 0.5, given 2 * value:
\* "4" for 4.0, "1.5" for 1.5
HalvesToString(twice) ==
    ToDec(twice \div 2) \o (IF twice % 2 = 1 THEN STR_dot \o <<53>> ELSE <<>>)

\* f32::to_string from the bit pattern (sign 0, exponent 0..22, a multiple of 0.5)
F32ToString(bits) ==
    LET e == ((bits \div 8388608) % 256) - 127
        m == 8388608 + (bits % 8388608)
    IN  HalvesToString(m \div (2 ^ (22 - e)))

\* f64::to_string from the <<high, low>> words (sign 0, low word 0, a multiple of 0.5)
F64ToString(bits) ==
    LET e == ((bits[1] \div 1048576) % 2048) - 1023
        m == 1048576 + (bits[1] % 1048576)
    IN  HalvesToString(m \div (2 ^ (19 - e)))

\* value.to_string() of a scalar property
to_string(p) ==
    CASE p[1] = "Float" -> F32ToString(p[2])
      [] p[1] = "Double" -> F64ToString(p[2])
      [] OTHER -> IntToString(p[2])

\* the w bytes of the two's complement of v, most significant first
BEBytes(v, w) == [k \in 1..w |-> (v \div (256 ^ (w - k))) % 256]

Reverse(b) == [k \in 1..Len(b) |-> b[Len(b) + 1 - k]]

\* the bit pattern of a scalar property, most significant byte first
ScalarBits(p) ==
    CASE p[1] \in {"Char", "UChar"} -> BEBytes(p[2], 1)
      [] p[1] \in {"Short", "UShort"} -> BEBytes(p[2], 2)
      [] p[1] \in {"Int", "UInt", "Float"} -> BEBytes(p[2], 4)
      [] p[1] = "Double" -> BEBytes(p[2][1], 4) \o BEBytes(p[2][2], 4)

\* B::write_*: the byte order type parameter B lays the bytes out
ByteOrder(B, bytes) == IF B = "BigEndian" THEN bytes ELSE Reverse(bytes)

----------------------------------------------------------------------------
(* Header emitter *)

\* variant of write_new_line: the line terminator is fixed instead of configured
write_new_line_fixed(s) == Write(s, STR_LF)

write_new_line(s) == Write(s, new_line)

write_simple_value(s, value) == Write(s, to_string(value))

write_encoding(s, encoding) ==
    Write(s, CASE encoding = "Ascii" -> STR_ascii
               [] encoding = "BinaryBigEndian" -> STR_binary_big_endian
               [] encoding = "BinaryLittleEndian" -> STR_binary_little_endian)

write_line_magic_number(s) ==
    LET w1 == Try(Begin(s), LAMBDA a: Write(a, STR_ply))
    IN  Try(w1, LAMBDA a: write_new_line(a))

\* format!(" {}.{}", version.major, version.minor)
FormatVersion(version) ==
    STR_space \o ToDec(version.major) \o STR_dot \o ToDec(version.minor)

write_line_format(s, encoding, version) ==
    LET w1 == Try(Begin(s), LAMBDA a: Write(a, STR_format))
        w2 == Try(w1, LAMBDA a: write_encoding(a, encoding))
        w3 == Try(w2, LAMBDA a: Write(a, FormatVersion(version)))
    IN  Try(w3, LAMBDA a: write_new_line(a))

write_line_comment(s, comment) ==
    LET w1 == Try(Begin(s), LAMBDA a: Write(a, STR_comment \o comment))
    IN  Try(w1, LAMBDA a: write_new_line(a))

write_line_obj_info(s, obj_info) ==
    LET w1 == Try(Begin(s), LAMBDA a: Write(a, STR_obj_info \o obj_info))
    IN  Try(w1, LAMBDA a: write_new_line(a))

write_line_element_definition(s, element) ==
    LET w1 == Try(Begin(s), LAMBDA a:
                    Write(a, STR_element \o element.name \o STR_space \o ToDec(element.count)))
    IN  Try(w1, LAMBDA a: write_new_line(a))

TypeKeyword(k) ==
    CASE k = "Char" -> STR_char [] k = "UChar" -> STR_uchar
      [] k = "Short" -> STR_short [] k = "UShort" -> STR_ushort
      [] k = "Int" -> STR_int [] k = "UInt" -> STR_uint
      [] k = "Float" -> STR_float [] k = "Double" -> STR_double

RECURSIVE write_property_type(_, _)

\* variant of write_property_type: the index type of a list is not validated
write_property_type_unchecked(s, data_type) ==
    IF data_type[1] # "List" THEN Write(s, TypeKeyword(data_type[1]))
    ELSE LET w1 == Try(Begin(s), LAMBDA a: Write(a, STR_list))
             w2 == Try(w1, LAMBDA a: write_property_type(a, data_type[2]))
             w3 == Try(w2, LAMBDA a: Write(a, STR_space))
         IN  Try(w3, LAMBDA a: write_property_type(a, data_type[3]))

write_property_type(s, data_type) ==
    IF data_type[1] # "List" THEN Write(s, TypeKeyword(data_type[1]))
    ELSE LET index_type == data_type[2]
             t == data_type[3]
             w1 == Try(Begin(s), LAMBDA a: Write(a, STR_list))
         IN  IF w1.res # "Ok" THEN w1
             ELSE IF index_type[1] = "Float" THEN Fail(w1, ERR_hdr_float)
             ELSE IF index_type[1] = "Double" THEN Fail(w1, ERR_hdr_double)
             ELSE IF index_type[1] = "List" THEN Fail(w1, ERR_hdr_list)
             ELSE LET w2 == Try(w1, LAMBDA a: write_property_type(a, index_type))
                      w3 == Try(w2, LAMBDA a: Write(a, STR_space))
                  IN  Try(w3, LAMBDA a: write_property_type(a, t))

write_line_property_definition(s, property) ==
    LET w1 == Try(Begin(s), LAMBDA a: Write(a, STR_property))
        w2 == Try(w1, LAMBDA a: write_property_type(a, property.data_type))
        w3 == Try(w2, LAMBDA a: Write(a, STR_space))
        w4 == Try(w3, LAMBDA a: Write(a, property.name))
    IN  Try(w4, LAMBDA a: write_new_line(a))

\* `for (_, p) in &element.properties { written += try!(...) }`
RECURSIVE write_property_definitions(_, _)
write_property_definitions(w, properties) ==
    IF properties = <<>> THEN w
    ELSE write_property_definitions(
             Try(w, LAMBDA a: write_line_property_definition(a, Head(properties))),
             Tail(properties))

write_element_definition(s, element) ==
    LET w1 == Try(Begin(s), LAMBDA a: write_line_element_definition(a, element))
    IN  write_property_definitions(w1, element.properties)

write_line_end_header(s) ==
    LET w1 == Try(Begin(s), LAMBDA a: Write(a, STR_end_header))
    IN  Try(w1, LAMBDA a: write_new_line(a))

RECURSIVE write_comments(_, _)
write_comments(w, comments) ==
    IF comments = <<>> THEN w
    ELSE write_comments(Try(w, LAMBDA a: write_line_comment(a, Head(comments))),
                        Tail(comments))

RECURSIVE write_obj_infos(_, _)
write_obj_infos(w, obj_infos) ==
    IF obj_infos = <<>> THEN w
    ELSE write_obj_infos(Try(w, LAMBDA a: write_line_obj_info(a, Head(obj_infos))),
                         Tail(obj_infos))

RECURSIVE write_element_definitions(_, _)
write_element_definitions(w, elements) ==
    IF elements = <<>> THEN w
    ELSE write_element_definitions(
             Try(w, LAMBDA a: write_element_definition(a, Head(elements))),
             Tail(elements))

\* variant of write_header: the obj_info lines are written before the comment lines
write_header_obj_infos_first(s, header) ==
    LET w1 == Try(Begin(s), LAMBDA a: write_line_magic_number(a))
        w2 == Try(w1, LAMBDA a: write_line_format(a, header.encoding, header.version))
        w3 == write_obj_infos(w2, header.obj_infos)
        w4 == write_comments(w3, header.comments)
        w5 == write_element_definitions(w4, header.elements)
    IN  Try(w5, LAMBDA a: write_line_end_header(a))

write_header(s, header) ==
    LET w1 == Try(Begin(s), LAMBDA a: write_line_magic_number(a))
        w2 == Try(w1, LAMBDA a: write_line_format(a, header.encoding, header.version))
        w3 == write_comments(w2, header.comments)
        w4 == write_obj_infos(w3, header.obj_infos)
        w5 == write_element_definitions(w4, header.elements)
    IN  Try(w5, LAMBDA a: write_line_end_header(a))

----------------------------------------------------------------------------
(* Payload emitter *)

\* KeyMap lookup by name: the position of the entry, 0 when there is none
Lookup(map, k) ==
    IF \E i \in 1..Len(map) : map[i].name = k
    THEN CHOOSE i \in 1..Len(map) : map[i].name = k
    ELSE 0

\* ToElement for DefaultElement: the identity, Ok(self.clone())
to_element(e, element_def) == e

RECURSIVE __write_binary_property(_, _, _, _)
RECURSIVE write_binary_items(_, _, _, _)

\* `for e in v { written += try!(self.__write_binary_property::<T, B>(out, &e, &*index_type)) }`
write_binary_items(w, B, v, index_type) ==
    IF v = <<>> THEN w
    ELSE write_binary_items(
             Try(w, LAMBDA a: __write_binary_property(a, B, Head(v), index_type)),
             B, Tail(v), index_type)

\* the count of a list at the width of its index type: `vl as i8` .. `vl as u32`
write_list_count(s, B, vl, index_type) ==
    CASE index_type[1] \in {"Char", "UChar"} -> WriteAll(s, ByteOrder(B, BEBytes(vl, 1)))
      [] index_type[1] \in {"Short", "UShort"} -> WriteAll(s, ByteOrder(B, BEBytes(vl, 2)))
      [] index_type[1] \in {"Int", "UInt"} -> WriteAll(s, ByteOrder(B, BEBytes(vl, 4)))
      [] index_type[1] = "Float" -> Fail(s, ERR_bin_float)
      [] index_type[1] = "Double" -> Fail(s, ERR_bin_double)
      [] index_type[1] = "List" -> Fail(s, ERR_bin_list)

__write_binary_property(s, B, property, property_type) ==
    IF property[1] # "List" THEN WriteAll(s, ByteOrder(B, ScalarBits(property)))
    ELSE IF property_type[1] # "List" THEN Fail(s, ERR_not_list)
    ELSE LET v == property[2]
             index_type == property_type[2]
             w1 == Try(Begin(s), LAMBDA a: write_list_count(a, B, Len(v), index_type))
         IN  write_binary_items(w1, B, v, index_type)

\* `for (k, property) in element { ... &element_def.properties[k].data_type ... }`
RECURSIVE write_binary_fields(_, _, _, _)
write_binary_fields(w, B, element, element_def) ==
    IF element = <<>> \/ w.res # "Ok" THEN w
    ELSE LET k == Head(element).name
             i == Lookup(element_def.properties, k)
         IN  IF i = 0 THEN Panic(w)
             ELSE write_binary_fields(
                      Try(w, LAMBDA a: __write_binary_property(
                              a, B, Head(element).val, element_def.properties[i].data_type)),
                      B, Tail(element), element_def)

__write_binary_element(s, B, element, element_def) ==
    write_binary_fields(Begin(s), B, element, element_def)

RECURSIVE write_ascii_property(_, _)
RECURSIVE write_ascii_items(_, _)

\* `for e in v { written += try!(out.write(" ")); written += try!(self.write_ascii_property(out, &e)) }`
write_ascii_items(w, v) ==
    IF v = <<>> THEN w
    ELSE LET w1 == Try(w, LAMBDA a: Write(a, STR_space))
         IN  write_ascii_items(Try(w1, LAMBDA a: write_ascii_property(a, Head(v))), Tail(v))

write_ascii_property(s, data_element) ==
    IF data_element[1] # "List" THEN write_simple_value(s, data_element)
    ELSE LET v == data_element[2]
             w1 == Try(Begin(s), LAMBDA a: Write(a, ToDec(Len(v))))
         IN  write_ascii_items(w1, v)

\* `loop { written += try!(out.write(" ")); let n = p_iter.next(); if n == None { break; } ... }`
RECURSIVE write_ascii_loop(_, _)
write_ascii_loop(w, p_iter) ==
    LET w1 == Try(w, LAMBDA a: Write(a, STR_space))
    IN  IF p_iter = <<>> THEN w1
        ELSE write_ascii_loop(
                 Try(w1, LAMBDA a: write_ascii_property(a, Head(p_iter).val)),
                 Tail(p_iter))

__write_ascii_element(s, element) ==
    IF element = <<>> THEN Panic(s)
    ELSE LET w1 == Try(Begin(s), LAMBDA a: write_ascii_property(a, Head(element).val))
             w2 == write_ascii_loop(w1, Tail(element))
         IN  Try(w2, LAMBDA a: write_new_line(a))

write_ascii_element(s, element, element_def) ==
    __write_ascii_element(s, to_element(element, element_def))

write_big_endian_element(s, element, element_def) ==
    __write_binary_element(s, "BigEndian", to_element(element, element_def), element_def)

write_little_endian_element(s, element, element_def) ==
    __write_binary_element(s, "BigEndian", to_element(element, element_def), element_def)

\* `for e in element_list { let raw_element = try!(e.to_element(element_def)); written += try!(...) }`
RECURSIVE write_rows(_, _, _, _)
write_rows(w, element_list, element_def, encoding) ==
    IF element_list = <<>> THEN w
    ELSE LET raw_element == to_element(Head(element_list), element_def)
             w1 == CASE encoding = "Ascii" ->
                           Try(w, LAMBDA a: __write_ascii_element(a, raw_element))
                      [] encoding = "BinaryBigEndian" ->
                           Try(w, LAMBDA a: __write_binary_element(
                                   a, "BigEndian", raw_element, element_def))
                      [] encoding = "BinaryLittleEndian" ->
                           Try(w, LAMBDA a: __write_binary_element(
                                   a, "LittleEndian", raw_element, element_def))
         IN  write_rows(w1, Tail(element_list), element_def, encoding)

write_payload_of_element(s, element_list, element_def, header) ==
    write_rows(Begin(s), element_list, element_def, header.encoding)

\* `for (k, element_list) in payload { let element_def = &element_defs[k]; ... }`
RECURSIVE write_payload_blocks(_, _, _)
write_payload_blocks(w, payload, header) ==
    IF payload = <<>> \/ w.res # "Ok" THEN w
    ELSE LET k == Head(payload).name
             i == Lookup(header.elements, k)
         IN  IF i = 0 THEN Panic(w)
             ELSE write_payload_blocks(
                      Try(w, LAMBDA a: write_payload_of_element(
                              a, Head(payload).rows, header.elements[i], header)),
                      Tail(payload), header)

write_payload(s, payload, header) ==
    write_payload_blocks(Begin(s), payload, header)

write_ply(s, ply) ==
    LET w1 == Try(Begin(s), LAMBDA a: write_header(a, ply.header))
        w2 == Try(w1, LAMBDA a: write_payload(a, ply.payload, ply.header))
    IN  IF w2.res # "Ok" THEN w2
        ELSE LET f == Flush(w2)
             IN  IF f.res # "Ok" THEN Panic(f)      \* out.flush().unwrap()
                 ELSE [f EXCEPT !.n = w2.n]         \* Ok(written)

----------------------------------------------------------------------------
(* Inputs of the operations: small sets of sinks, types, values and documents *)

\* A sink with at most one fault: one failing write, or one text write accepted
\* short, or (for the operation that flushes) a failing flush.
Sinks(withFlush) ==
    {sk \in [failAt : 0..MaxFailAt, shortAt : 0..MaxShortAt, flushFails : BOOLEAN] :
        /\ (sk.failAt = 0 \/ sk.shortAt = 0)
        /\ (sk.flushFails => (withFlush /\ sk.failAt = 0 /\ sk.shortAt = 0))}

PerfectSink == [failAt |-> 0, shortAt |-> 0, flushFails |-> FALSE]

\* The sinks whose fault lies within the first n sink operations: in an operation
\* that issues n of them, a sink with a later fault behaves as the perfect sink.
SinksUpTo(n, withFlush) ==
    {sk \in Sinks(withFlush) : sk.failAt <= n /\ sk.shortAt <= n}

N_x == <<120>>     \* "x"
N_y == <<121>>     \* "y"
N_z == <<122>>     \* "z"
N_l == <<108>>     \* "l"
N_v == <<118>>     \* "v"
N_f == <<102>>     \* "f"
N_g == <<103>>     \* "g"

F_1_5 == Val("Float", 1069547520)     \* 1.5f32 = 0x3FC00000
F_2_5 == Val("Float", 1075838976)     \* 2.5f32 = 0x40200000
F_3_5 == Val("Float", 1080033280)     \* 3.5f32 = 0x40600000
F_4_0 == Val("Float", 1082130432)     \* 4.0f32 = 0x40800000
D_2_5 == Val("Double", <<1074003968, 0>>)   \* 2.5f64 = 0x4004000000000000

ScalarVals(k) ==
    CASE k = "Char" -> {Val(k, -2), Val(k, 10)}
      [] k = "UChar" -> {Val(k, 200)}
      [] k = "Short" -> {Val(k, 258), Val(k, -2)}
      [] k = "UShort" -> {Val(k, 513)}
      [] k = "Int" -> {Val(k, 1), Val(k, 258)}
      [] k = "UInt" -> {Val(k, 66051)}
      [] k = "Float" -> {F_1_5, F_4_0}
      [] k = "Double" -> {D_2_5}

SeqsUpTo(S, n) == UNION {[1..m -> S] : m \in 0..n}

T_Int == Scalar("Int")
T_UChar == Scalar("UChar")
T_Float == Scalar("Float")
T_Short == Scalar("Short")
T_ListUCharInt == ListOf(T_UChar, T_Int)
T_ListFloatInt == ListOf(T_Float, T_Int)

ScalarTypes == {Scalar(k) : k \in ScalarKinds}
IndexTypes == ScalarTypes \cup {T_ListUCharInt}
ListTypes ==
    {ListOf(i, T_Int) : i \in IndexTypes}
    \cup {ListOf(i, v) : i \in {T_UChar, T_Short, T_Float},
                         v \in {T_Short, T_ListUCharInt, T_ListFloatInt}}
PropTypes == ScalarTypes \cup ListTypes

\* the values of a declared type; the inner lists of a list of lists are kept short
ValuesOf(t) ==
    IF t[1] # "List" THEN ScalarVals(t[1])
    ELSE IF t[3][1] # "List"
         THEN {Val("List", v) : v \in SeqsUpTo(ScalarVals(t[3][1]), MaxListLen)}
         ELSE {Val("List", v) : v \in SeqsUpTo(
                  {Val("List", u) : u \in SeqsUpTo({Val("Int", 1)}, MaxListLen - 1)},
                  MaxListLen)}

PD(name, t) == [name |-> name, data_type |-> t]
ED(name, count, props) == [name |-> name, count |-> count, properties |-> props]
EV(name, val) == [name |-> name, val |-> val]

Def_v == ED(N_v, 2, <<PD(N_x, T_Float), PD(N_y, T_Short)>>)
Def_xyz == ED(N_v, 2, <<PD(N_x, T_Float), PD(N_y, T_Float), PD(N_z, T_Float)>>)
Def_f == ED(N_f, 1, <<PD(N_l, T_ListUCharInt)>>)
Def_g == ED(N_g, 10, <<PD(N_l, ListOf(T_UChar, T_ListUCharInt))>>)
Def_bad == ED(N_g, 1, <<PD(N_x, T_Short), PD(N_l, T_ListFloatInt)>>)
Def_nested_bad == ED(N_g, 1, <<PD(N_l, ListOf(T_UChar, ListOf(Scalar("Double"), T_Int)))>>)
Def_empty == ED(N_g, 0, <<>>)

Row_v1 == <<EV(N_x, F_1_5), EV(N_y, Val("Short", 258))>>
Row_v2 == <<EV(N_x, F_4_0), EV(N_y, Val("Short", -2))>>
Row_f1 == <<EV(N_l, Val("List", <<Val("Int", 1), Val("Int", 258)>>))>>

\* an element and the definition it is written against
ElementCases ==
    \* one scalar property of every kind, declared as its own kind or as a double
    UNION {{[element |-> <<EV(N_x, v)>>, element_def |-> ED(N_v, 1, <<PD(N_x, Scalar(k))>>)] :
               k \in {v[1], "Double"}} : v \in UNION {ScalarVals(j) : j \in ScalarKinds}}
    \* one list property, its value of the declared type
    \cup UNION {{[element |-> <<EV(N_l, v)>>, element_def |-> ED(N_f, 1, <<PD(N_l, t)>>)] :
                    v \in ValuesOf(t)} : t \in ListTypes}
    \* several properties, in the definition's order and in another
    \cup {[element |-> e, element_def |-> Def_v] :
             e \in {Row_v1, Row_v2, <<Row_v1[2], Row_v1[1]>>}}
    \cup {[element |-> <<EV(N_x, F_1_5), EV(N_y, F_2_5), EV(N_z, F_3_5)>>,
           element_def |-> Def_xyz],
          [element |-> <<EV(N_z, F_4_0), EV(N_x, F_1_5), EV(N_y, F_2_5)>>,
           element_def |-> Def_xyz],
          [element |-> <<EV(N_x, Val("Short", 258)), EV(N_l, Row_f1[1].val)>>,
           element_def |-> Def_bad],
          \* a list value under a scalar declaration, a scalar under a list declaration
          [element |-> Row_f1, element_def |-> ED(N_f, 1, <<PD(N_l, T_Int)>>)],
          [element |-> <<EV(N_l, Val("Int", 1))>>,
           element_def |-> ED(N_f, 1, <<PD(N_l, T_ListFloatInt)>>)],
          \* a property the definition does not name, and an element without properties
          [element |-> Row_f1, element_def |-> Def_v],
          [element |-> <<>>, element_def |-> Def_empty]}

CommentText(i) == <<99, 48 + i>>      \* "c1", "c2", ...
ObjInfoText(i) == <<111, 48 + i>>     \* "o1", "o2", ...

Encodings == {"Ascii", "BinaryBigEndian", "BinaryLittleEndian"}
Versions == {[major |-> 1, minor |-> 0], [major |-> 12, minor |-> 3]}

Hdr(encoding, nc, no, elements) ==
    [encoding |-> encoding, version |-> [major |-> 1, minor |-> 0],
     comments |-> [i \in 1..nc |-> CommentText(i)],
     obj_infos |-> [i \in 1..no |-> ObjInfoText(i)],
     elements |-> elements]

ElementLists ==
    {<<>>, <<Def_v, Def_f>>, <<Def_f, Def_v>>, <<Def_f, Def_g>>,
     <<Def_f, Def_bad>>, <<Def_nested_bad>>, <<Def_empty, Def_v>>}

Headers ==
    {Hdr(enc, c[1], c[2], els) :
        enc \in Encodings, els \in ElementLists,
        c \in {c \in (0..MaxComments) \X (0..MaxComments) : c[1] + c[2] <= MaxComments}}

PL(name, rows) == [name |-> name, rows |-> rows]

\* a header's elements and a payload: in the header's order, in another order,
\* empty, naming an element the header lacks, under a header that cannot be written
Documents ==
    {[header |-> Hdr(enc, nc, 0, d.elements), payload |-> d.payload] :
        enc \in Encodings, nc \in {0, 1},
        d \in {[elements |-> <<>>, payload |-> <<>>],
               [elements |-> <<Def_f>>, payload |-> <<PL(N_f, <<Row_f1>>)>>],
               [elements |-> <<Def_v>>, payload |-> <<PL(N_v, <<Row_v1, Row_v2>>)>>],
               [elements |-> <<Def_f, Def_v>>,
                payload |-> <<PL(N_f, <<Row_f1>>), PL(N_v, <<Row_v1, Row_v2>>)>>],
               [elements |-> <<Def_f, Def_v>>,
                payload |-> <<PL(N_v, <<Row_v1, Row_v2>>), PL(N_f, <<Row_f1>>)>>],
               [elements |-> <<Def_v>>, payload |-> <<PL(N_f, <<Row_f1>>)>>],
               [elements |-> <<Def_f, Def_bad>>, payload |-> <<PL(N_f, <<Row_f1>>)>>]}}

----------------------------------------------------------------------------
(* The operations of the Writer *)

\* An operation is handed a sink of its own, empty: the caller has taken the
\* previous operation's sink and result away (Close).
Idle == call = "idle"

NoArg == [none |-> TRUE]
NoRet == [kind |-> "Ok", n |-> 0, msg |-> ""]

\* Operation `name` with inputs a has run on sink sk, r being the run: it leaves
\* behind the sink's content, the sink operations it issued and the value it
\* returned (Ok(n), Err(msg) or a panic).
Done(name, a, sk, r) ==
    /\ call' = name
    /\ arg' = a
    /\ sink' = sk
    /\ out' = r.out
    /\ ops' = r.ops
    /\ ret' = [kind |-> r.res, n |-> r.n, msg |-> r.msg]
    /\ UNCHANGED <<new_line, policy>>

\* the sinks to run an operation on, p being its run on the perfect sink
SinksFor(p, withFlush) == SinksUpTo(Len(p.ops), withFlush)

\* Writer::new()
Init ==
    /\ new_line = STR_CRLF
    /\ policy = "none"
    /\ call = "idle"
    /\ arg = NoArg
    /\ sink = PerfectSink
    /\ out = <<>>
    /\ ops = <<>>
    /\ ret = NoRet

set_newline(nl) ==
    /\ Idle
    /\ new_line' = CASE nl = "R" -> STR_CR
                     [] nl = "N" -> STR_LF
                     [] nl = "RN" -> STR_CRLF
    /\ policy' = nl
    /\ UNCHANGED <<call, arg, sink, out, ops, ret>>

SetNewline == \E nl \in {"N", "R", "RN"} : set_newline(nl)

WriteLineMagicNumber ==
    /\ Idle
    /\ \E sk \in SinksFor(write_line_magic_number(Fresh(PerfectSink)), FALSE) :
              Done("write_line_magic_number", NoArg, sk, write_line_magic_number(Fresh(sk)))

WriteLineFormat ==
    /\ Idle
    /\ \E enc \in Encodings, ver \in Versions :
          \E sk \in SinksFor(write_line_format(Fresh(PerfectSink), enc, ver), FALSE) :
              Done("write_line_format", [encoding |-> enc, version |-> ver], sk,
                   write_line_format(Fresh(sk), enc, ver))

WriteLineComment ==
    /\ Idle
    /\ \E i \in 1..MaxComments :
          \E sk \in SinksFor(write_line_comment(Fresh(PerfectSink), CommentText(i)), FALSE) :
              Done("write_line_comment", [text |-> CommentText(i)], sk,
                   write_line_comment(Fresh(sk), CommentText(i)))

WriteLineObjInfo ==
    /\ Idle
    /\ \E i \in 1..MaxComments :
          \E sk \in SinksFor(write_line_obj_info(Fresh(PerfectSink), ObjInfoText(i)), FALSE) :
              Done("write_line_obj_info", [text |-> ObjInfoText(i)], sk,
                   write_line_obj_info(Fresh(sk), ObjInfoText(i)))

WriteLineElementDefinition ==
    /\ Idle
    /\ \E e \in {Def_v, Def_f, Def_g, Def_empty} :
          \E sk \in SinksFor(write_line_element_definition(Fresh(PerfectSink), e), FALSE) :
              Done("write_line_element_definition", [element_def |-> e], sk,
                   write_line_element_definition(Fresh(sk), e))

WriteLinePropertyDefinition ==
    /\ Idle
    /\ \E t \in PropTypes, name \in {N_x, N_l} :
          \E sk \in SinksFor(write_line_property_definition(Fresh(PerfectSink), PD(name, t)), FALSE) :
              Done("write_line_property_definition", [property |-> PD(name, t)], sk,
                   write_line_property_definition(Fresh(sk), PD(name, t)))

WriteElementDefinition ==
    /\ Idle
    /\ \E e \in {Def_v, Def_xyz, Def_f, Def_g, Def_bad, Def_nested_bad, Def_empty} :
          \E sk \in SinksFor(write_element_definition(Fresh(PerfectSink), e), FALSE) :
              Done("write_element_definition", [element_def |-> e], sk,
                   write_element_definition(Fresh(sk), e))

WriteLineEndHeader ==
    /\ Idle
    /\ \E sk \in SinksFor(write_line_end_header(Fresh(PerfectSink)), FALSE) :
              Done("write_line_end_header", NoArg, sk, write_line_end_header(Fresh(sk)))

WriteHeader ==
    /\ Idle
    /\ \E h \in Headers :
          \E sk \in SinksFor(write_header(Fresh(PerfectSink), h), FALSE) :
              Done("write_header", [header |-> h], sk, write_header(Fresh(sk), h))

WritePayload ==
    /\ Idle
    /\ \E d \in Documents :
          \E sk \in SinksFor(write_payload(Fresh(PerfectSink), d.payload, d.header), FALSE) :
              Done("write_payload", [header |-> d.header, payload |-> d.payload], sk,
                   write_payload(Fresh(sk), d.payload, d.header))

WritePayloadOfElement ==
    /\ Idle
    /\ \E d \in Documents :
       \E i \in 1..Len(d.payload), j \in 1..Len(d.header.elements) :
          \E sk \in SinksFor(write_payload_of_element(Fresh(PerfectSink), d.payload[i].rows, d.header.elements[j], d.header), FALSE) :
              Done("write_payload_of_element", [header |-> d.header, rows |-> d.payload[i].rows,
                    element_def |-> d.header.elements[j]], sk, write_payload_of_element(Fresh(sk), d.payload[i].rows, d.header.elements[j], d.header))

WriteAsciiElement ==
    /\ Idle
    /\ \E c \in ElementCases :
          \E sk \in SinksFor(write_ascii_element(Fresh(PerfectSink), c.element, c.element_def), FALSE) :
              Done("write_ascii_element", c, sk,
                   write_ascii_element(Fresh(sk), c.element, c.element_def))

WriteBigEndianElement ==
    /\ Idle
    /\ \E c \in ElementCases :
          \E sk \in SinksFor(write_big_endian_element(Fresh(PerfectSink), c.element, c.element_def), FALSE) :
              Done("write_big_endian_element", c, sk,
                   write_big_endian_element(Fresh(sk), c.element, c.element_def))

WriteLittleEndianElement ==
    /\ Idle
    /\ \E c \in ElementCases :
          \E sk \in SinksFor(write_little_endian_element(Fresh(PerfectSink), c.element, c.element_def), FALSE) :
              Done("write_little_endian_element", c, sk,
                   write_little_endian_element(Fresh(sk), c.element, c.element_def))

WritePly ==
    /\ Idle
    /\ \E d \in Documents :
          \E sk \in SinksFor(write_ply(Fresh(PerfectSink), d), TRUE) :
              Done("write_ply", d, sk, write_ply(Fresh(sk), d))

\* the caller drops the sink and the result of the operation performed last
Close ==
    /\ ~Idle
    /\ call' = "idle"
    /\ arg' = NoArg
    /\ sink' = PerfectSink
    /\ out' = <<>>
    /\ ops' = <<>>
    /\ ret' = NoRet
    /\ UNCHANGED <<new_line, policy>>

Next ==
    \/ Close
    \/ SetNewline
    \/ WriteLineMagicNumber
    \/ WriteLineFormat
    \/ WriteLineComment
    \/ WriteLineObjInfo
    \/ WriteLineElementDefinition
    \/ WriteLinePropertyDefinition
    \/ WriteElementDefinition
    \/ WriteLineEndHeader
    \/ WriteHeader
    \/ WritePayload
    \/ WritePayloadOfElement
    \/ WriteAsciiElement
    \/ WriteBigEndianElement
    \/ WriteLittleEndianElement
    \/ WritePly

Spec == Init /\ [][Next]_vars

----------------------------------------------------------------------------
(* What the claims are stated with *)

RECURSIVE Flat(_)
\* the concatenation of a sequence of byte sequences
Flat(seqs) == IF seqs = <<>> THEN <<>> ELSE Head(seqs) \o Flat(Tail(seqs))

RECURSIVE Join(_, _)
\* the byte sequences joined by a separator
Join(seqs, sep) ==
    IF seqs = <<>> THEN <<>>
    ELSE IF Len(seqs) = 1 THEN seqs[1]
    ELSE seqs[1] \o sep \o Join(Tail(seqs), sep)

IsPrefix(a, b) == Len(a) <= Len(b) /\ SubSeq(b, 1, Len(a)) = a

\* the bytes the operation handed to its sink, in order
Offered == Flat([i \in 1..Len(ops) |-> ops[i].data])

\* the sink accepted every byte it was handed, and its flush succeeded
FaultFree == \A i \in 1..Len(ops) : ops[i].acc = Len(ops[i].data)

\* a sink operation failed
SinkFailed == \E i \in 1..Len(ops) : ops[i].acc < 0

\* the line terminator of a newline policy: LF, CR, CRLF, and CRLF by default
PolicyNewline(pol) ==
    CASE pol = "N" -> <<10>>
      [] pol = "R" -> <<13>>
      [] pol = "RN" -> <<13, 10>>
      [] pol = "none" -> <<13, 10>>

IntegerKinds == {"Char", "UChar", "Short", "UShort", "Int", "UInt"}
InvalidIndexKinds == {"Float", "Double", "List"}

\* the width in bytes of a scalar type
WidthOf(k) ==
    CASE k \in {"Char", "UChar"} -> 1
      [] k \in {"Short", "UShort"} -> 2
      [] k \in {"Int", "UInt", "Float"} -> 4
      [] k = "Double" -> 8

\* byte number k (1 = least significant) of a scalar value
ByteOf(p, k) ==
    IF p[1] = "Double"
    THEN IF k <= 4 THEN (p[2][2] \div (256 ^ (k - 1))) % 256
                   ELSE (p[2][1] \div (256 ^ (k - 5))) % 256
    ELSE (p[2] \div (256 ^ (k - 1))) % 256

\* a scalar field: most significant byte first, or least significant byte first
FieldOf(p, order) ==
    LET w == WidthOf(p[1])
    IN  IF order = "big" THEN [k \in 1..w |-> ByteOf(p, w + 1 - k)]
                         ELSE [k \in 1..w |-> ByteOf(p, k)]

\* a count at the width of an integer type
CountOf(n, k, order) ==
    LET w == WidthOf(k)
    IN  IF order = "big" THEN [j \in 1..w |-> (n \div (256 ^ (w - j))) % 256]
                         ELSE [j \in 1..w |-> (n \div (256 ^ (j - 1))) % 256]

RECURSIVE WellTyped(_, _)
\* the value is of the declared type, every list index type in it being an integer type
WellTyped(p, t) ==
    IF t[1] # "List" THEN p[1] = t[1]
    ELSE /\ p[1] = "List"
         /\ t[2][1] \in IntegerKinds
         /\ \A i \in 1..Len(p[2]) : WellTyped(p[2][i], t[3])

RECURSIVE BinaryOf(_, _, _)
\* the binary field of a well-typed value: a list is its count at the index type's
\* width, then each item encoded against the value type
BinaryOf(p, t, order) ==
    IF t[1] # "List" THEN FieldOf(p, order)
    ELSE CountOf(Len(p[2]), t[2][1], order)
         \o Flat([i \in 1..Len(p[2]) |-> BinaryOf(p[2][i], t[3], order)])

RECURSIVE AsciiOf(_)
\* the text of a value: a list is its item count, then its items, each after a space
AsciiOf(p) ==
    IF p[1] # "List" THEN to_string(p)
    ELSE Join(<<ToDec(Len(p[2]))>> \o [i \in 1..Len(p[2]) |-> AsciiOf(p[2][i])], STR_space)

RECURSIVE TypeText(_)
\* the text of a type in a property line
TypeText(t) ==
    IF t[1] # "List" THEN TypeKeyword(t[1])
    ELSE STR_list \o TypeText(t[2]) \o STR_space \o TypeText(t[3])

EncodingKeyword(enc) ==
    CASE enc = "Ascii" -> STR_ascii
      [] enc = "BinaryBigEndian" -> STR_binary_big_endian
      [] enc = "BinaryLittleEndian" -> STR_binary_little_endian

\* the lines of an element definition block: the element line, then its property lines
ElementLines(e) ==
    <<STR_element \o e.name \o STR_space \o ToDec(e.count)>>
    \o [j \in 1..Len(e.properties) |->
           STR_property \o TypeText(e.properties[j].data_type) \o STR_space
           \o e.properties[j].name]

\* the lines of a header, in the order the format lays down
HeaderLines(h) ==
    <<STR_ply,
      STR_format \o EncodingKeyword(h.encoding) \o STR_space
      \o ToDec(h.version.major) \o STR_dot \o ToDec(h.version.minor)>>
    \o [i \in 1..Len(h.comments) |-> STR_comment \o h.comments[i]]
    \o [i \in 1..Len(h.obj_infos) |-> STR_obj_info \o h.obj_infos[i]]
    \o Flat([i \in 1..Len(h.elements) |-> ElementLines(h.elements[i])])
    \o <<STR_end_header>>

\* lines as text, each ended by the line terminator
LinesText(lines, nl) == Flat([i \in 1..Len(lines) |-> lines[i] \o nl])

RECURSIVE InvalidIndexIn(_)
\* the kind of the first invalid list index type met when a type is written out
\* in a property line, "none" when there is none
InvalidIndexIn(t) ==
    IF t[1] # "List" THEN "none"
    ELSE IF t[2][1] \in InvalidIndexKinds THEN t[2][1]
    ELSE InvalidIndexIn(t[3])

HeaderIndexError(k) ==
    CASE k = "Float" -> ERR_hdr_float [] k = "Double" -> ERR_hdr_double
      [] k = "List" -> ERR_hdr_list [] OTHER -> "none"

BinaryIndexError(k) ==
    CASE k = "Float" -> ERR_bin_float [] k = "Double" -> ERR_bin_double
      [] k = "List" -> ERR_bin_list [] OTHER -> "none"

InvalidIndexErrors ==
    {HeaderIndexError(k) : k \in InvalidIndexKinds}
    \cup {BinaryIndexError(k) : k \in InvalidIndexKinds}

NamesOf(map) == [i \in 1..Len(map) |-> map[i].name]

RECURSIVE Sum(_)
Sum(ns) == IF ns = <<>> THEN 0 ELSE Head(ns) + Sum(Tail(ns))

\* the declared type of the property an element entry names
DeclaredType(def, name) == def.properties[Lookup(def.properties, name)].data_type

\* the entry holds a list and is declared a list whose index type is invalid
Offends(def, ev) ==
    /\ ev.val[1] = "List"
    /\ Lookup(def.properties, ev.name) # 0
    /\ DeclaredType(def, ev.name)[1] = "List"
    /\ DeclaredType(def, ev.name)[2][1] \in InvalidIndexKinds

BinaryElementCalls == {"write_big_endian_element", "write_little_endian_element"}
LineCalls ==
    {"write_line_magic_number", "write_line_format", "write_line_comment",
     "write_line_obj_info", "write_line_element_definition",
     "write_line_property_definition", "write_line_end_header"}

\* the payload holds one sequence of rows for each element the header declares
PayloadMatchesHeader(h, pl) ==
    /\ Len(pl) = Len(h.elements)
    /\ \A i \in 1..Len(h.elements) : Lookup(pl, h.elements[i].name) # 0

\* the rows of one element as the active encoding writes them
BlockOf(h, pl, name) ==
    write_payload_of_element(Fresh(PerfectSink), pl[Lookup(pl, name)].rows,
                             h.elements[Lookup(h.elements, name)], h).out

IsSuffix(a, b) == Len(a) <= Len(b) /\ SubSeq(b, Len(b) - Len(a) + 1, Len(b)) = a

----------------------------------------------------------------------------
(* The claims *)

\* C1: write_ply (and write_payload) emits the payload blocks in the order of the
\* header's element definitions, whatever order the payload map holds them in:
\* the payload bytes are the blocks of the declared elements, in header order.
C1_PayloadInHeaderOrder ==
    (/\ call \in {"write_ply", "write_payload"}
     /\ ret.kind = "Ok"
     /\ FaultFree
     /\ PayloadMatchesHeader(arg.header, arg.payload))
    => LET h == arg.header
           blocks == Flat([i \in 1..Len(h.elements) |->
                              BlockOf(h, arg.payload, h.elements[i].name)])
       IN  IF call = "write_payload" THEN out = blocks ELSE IsSuffix(blocks, out)

\* C2: an ascii row of n >= 1 properties is exactly the n values as text, separated
\* by single spaces (a list as its count and its items), followed immediately by
\* the configured newline: no separator follows the last value.
C2_AsciiRow ==
    (/\ call = "write_ascii_element"
     /\ ret.kind = "Ok"
     /\ Len(arg.element) >= 1)
    => Offered = Join([i \in 1..Len(arg.element) |-> AsciiOf(arg.element[i].val)], STR_space)
                 \o PolicyNewline(policy)

\* C3: a binary list field declared List(index_type, value_type) with integer index
\* types is written successfully as the count at the index type's width, then each
\* item encoded against the declared value type, recursing for lists of lists.
C3_BinaryList ==
    (/\ call = "write_big_endian_element"
     /\ ~SinkFailed
     /\ Len(arg.element) = 1
     /\ Lookup(arg.element_def.properties, arg.element[1].name) # 0
     /\ DeclaredType(arg.element_def, arg.element[1].name)[1] = "List"
     /\ WellTyped(arg.element[1].val, DeclaredType(arg.element_def, arg.element[1].name)))
    => /\ ret.kind = "Ok"
       /\ out = BinaryOf(arg.element[1].val,
                         DeclaredType(arg.element_def, arg.element[1].name), "big")

\* C4: every scalar written by a binary operation has the fixed width of its type
\* and the byte order the operation selects: most significant byte first for the
\* big-endian operation, least significant byte first for the little-endian one.
C4_ScalarBytes ==
    (/\ call \in BinaryElementCalls
     /\ ~SinkFailed
     /\ NamesOf(arg.element) = NamesOf(arg.element_def.properties)
     /\ \A i \in 1..Len(arg.element) :
           /\ arg.element[i].val[1] # "List"
           /\ arg.element_def.properties[i].data_type = Scalar(arg.element[i].val[1]))
    => /\ ret.kind = "Ok"
       /\ out = Flat([i \in 1..Len(arg.element) |->
                         FieldOf(arg.element[i].val,
                                 IF call = "write_big_endian_element" THEN "big"
                                 ELSE "little")])

\* C5: when a sink write or the final flush fails during write_ply, write_ply
\* returns that failure as an error value, the failed operation is the last one
\* issued to the sink and it is issued once.
C5_SinkFailureReturned ==
    (call = "write_ply" /\ SinkFailed)
    => /\ ret.kind = "Err"
       /\ ret.msg = ERR_io
       /\ ops[Len(ops)].acc < 0
       /\ Cardinality({i \in 1..Len(ops) : ops[i].acc < 0}) = 1

\* C6: a list type whose index type is Float, Double or List fails with the
\* invalid-index-type error of that kind, in a property line of the header (no
\* index-type token follows "list ") and in a binary payload field (no count is
\* written); a list whose index types are integer types never raises the error.
C6_InvalidIndexType ==
    /\ call = "write_line_property_definition" =>
         LET t == arg.property.data_type
             k == InvalidIndexIn(t)
         IN  /\ k # "none" => ret.kind = "Err"
             /\ (k # "none" /\ ~SinkFailed) =>
                    /\ ret.msg = HeaderIndexError(k)
                    /\ ops[Len(ops)].data = STR_list
             /\ (t[1] = "List" /\ t[2][1] \in InvalidIndexKinds) =>
                    IsPrefix(Offered, STR_property \o STR_list)
             /\ k = "none" => ret.msg \notin InvalidIndexErrors
    /\ call \in {"write_header", "write_element_definition", "write_ply"} =>
         LET defs == IF call = "write_element_definition" THEN <<arg.element_def>>
                     ELSE arg.header.elements
             bad == UNION {{InvalidIndexIn(defs[i].properties[j].data_type) :
                               j \in 1..Len(defs[i].properties)} :
                           i \in 1..Len(defs)} \ {"none"}
         IN  /\ bad # {} => ret.kind = "Err"
             /\ (bad # {} /\ ~SinkFailed) =>
                    /\ ret.msg \in {HeaderIndexError(k) : k \in bad}
                    /\ ops[Len(ops)].data = STR_list
             /\ bad = {} => ret.msg \notin InvalidIndexErrors
    /\ call \in BinaryElementCalls =>
         LET e == arg.element
             def == arg.element_def
         IN  /\ (e # <<>> /\ Offends(def, e[1])) =>
                    /\ ret.kind = "Err"
                    /\ ret.msg = BinaryIndexError(DeclaredType(def, e[1].name)[2][1])
                    /\ ops = <<>>
             /\ (\E i \in 1..Len(e) : Offends(def, e[i])) => ret.kind # "Ok"
             /\ ret.msg \in InvalidIndexErrors =>
                    \E i \in 1..Len(e) :
                        /\ Offends(def, e[i])
                        /\ ret.msg = BinaryIndexError(DeclaredType(def, e[i].name)[2][1])
                        /\ Len(ops) < i

\* C6 witness: a binary list field declared with a float index type was refused
\* before anything was written
C6_Witness ==
    /\ call = "write_little_endian_element"
    /\ ret.msg = ERR_bin_float
    /\ Len(arg.element[1].val[2]) = MaxListLen
    /\ ops = <<>>

\* C7: write_header emits the magic line, the format line, the comments in order,
\* the obj_infos in order, each element line followed immediately by its property
\* lines in definition order, and "end_header" last; in write_ply every header
\* byte is written before the first payload byte.
C7_HeaderOrder ==
    /\ call = "write_header" =>
         LET text == LinesText(HeaderLines(arg.header), PolicyNewline(policy))
         IN  /\ IsPrefix(Offered, text)
             /\ ret.kind = "Ok" => Offered = text
             /\ FaultFree => out = Offered
    /\ call = "write_element_definition" =>
         LET text == LinesText(ElementLines(arg.element_def), PolicyNewline(policy))
         IN  /\ IsPrefix(Offered, text)
             /\ ret.kind = "Ok" => Offered = text
             /\ FaultFree => out = Offered
    /\ call = "write_ply" =>
         LET text == LinesText(HeaderLines(arg.header), PolicyNewline(policy))
         IN  /\ IsPrefix(Offered, text) \/ IsPrefix(text, Offered)
             /\ ret.kind = "Ok" => IsPrefix(text, Offered)
             /\ FaultFree => out = Offered

\* C7 witness: a document with a comment and two elements was written, header
\* first and payload after it
C7_Witness ==
    /\ call = "write_ply"
    /\ ret.kind = "Ok"
    /\ Len(arg.header.comments) = 1
    /\ Len(arg.header.elements) = 2
    /\ Len(out) > Len(LinesText(HeaderLines(arg.header), PolicyNewline(policy)))

LineEnding(data) == \E i \in 1..Len(data) : data[i] \in {10, 13}

\* the text writes of the operation that wrote the configured line terminator
NewlineOps ==
    {i \in 1..Len(ops) : ops[i].op = "write" /\ ops[i].data = PolicyNewline(policy)}

RowsIn(pl) == Sum([i \in 1..Len(pl) |-> Len(pl[i].rows)])

\* the lines and ascii rows the operation writes when it succeeds
ExpectedLines ==
    CASE call \in LineCalls \cup {"write_ascii_element"} -> 1
      [] call = "write_element_definition" -> Len(ElementLines(arg.element_def))
      [] call = "write_header" -> Len(HeaderLines(arg.header))
      [] call = "write_payload_of_element" ->
            IF arg.header.encoding = "Ascii" THEN Len(arg.rows) ELSE 0
      [] call = "write_payload" ->
            IF arg.header.encoding = "Ascii" THEN RowsIn(arg.payload) ELSE 0
      [] call = "write_ply" ->
            Len(HeaderLines(arg.header))
            + (IF arg.header.encoding = "Ascii" THEN RowsIn(arg.payload) ELSE 0)
      [] OTHER -> 0

\* C8: the configured newline is the one of the most recent set_newline (CRLF when
\* there was none) and no write operation changes it; every header line and ascii
\* row ends with exactly that sequence, the writer writes no other line-ending
\* bytes, and binary rows carry no terminator or separator.
C8_Newline ==
    /\ new_line = PolicyNewline(policy)
    /\ \A i \in 1..Len(ops) :
          (ops[i].op = "write" /\ LineEnding(ops[i].data))
          => ops[i].data = PolicyNewline(policy)
    /\ (call # "idle" /\ ret.kind = "Ok") => Cardinality(NewlineOps) = ExpectedLines
    /\ (/\ ret.kind = "Ok"
        /\ call \in LineCalls \cup {"write_ascii_element", "write_element_definition",
                                    "write_header"})
       => ops[Len(ops)].data = PolicyNewline(policy)
    /\ call \in BinaryElementCalls =>
          /\ \A i \in 1..Len(ops) : ops[i].op = "write_all"
          /\ (ret.kind = "Ok" /\ \A i \in 1..Len(arg.element) : arg.element[i].val[1] # "List")
             => Len(out) = Sum([i \in 1..Len(arg.element) |-> WidthOf(arg.element[i].val[1])])

\* C8 witness: a header with comments and elements was written under the CR policy
C8_Witness ==
    /\ call = "write_header"
    /\ policy = "R"
    /\ ret.kind = "Ok"
    /\ Len(arg.header.comments) >= 1
    /\ Len(arg.header.elements) >= 2
    /\ Cardinality(NewlineOps) >= 7

\* C9: a binary row is the concatenation of the fields in the ElementDef's
\* property order, also when the element holds the same property names in
\* another order.
C9_BinaryFieldsInDefOrder ==
    (/\ call = "write_big_endian_element"
     /\ ret.kind = "Ok"
     /\ Len(arg.element) = Len(arg.element_def.properties)
     /\ \A j \in 1..Len(arg.element_def.properties) :
           Lookup(arg.element, arg.element_def.properties[j].name) # 0)
    => out = Flat([j \in 1..Len(arg.element_def.properties) |->
                      LET pd == arg.element_def.properties[j]
                      IN  __write_binary_property(
                              Fresh(PerfectSink), "BigEndian",
                              arg.element[Lookup(arg.element, pd.name)].val,
                              pd.data_type).out])

\* the bytes the sink accepted, by its operations
Accepted ==
    Flat([i \in 1..Len(ops) |->
             IF ops[i].acc < 0 THEN <<>> ELSE SubSeq(ops[i].data, 1, ops[i].acc)])

\* C10: whenever an operation returns Ok(n), n is the number of bytes it delivered
\* to the sink, for every encoding and also when the sink accepted fewer bytes than
\* offered on a text write; for a binary list field n is the index type's width
\* plus every item's width.
C10_BytesWritten ==
    /\ out = Accepted
    /\ (call # "idle" /\ ret.kind = "Ok") => ret.n = Len(out)
    /\ (/\ call \in BinaryElementCalls
        /\ ret.kind = "Ok"
        /\ Len(arg.element) = 1
        /\ arg.element[1].val[1] = "List"
        /\ \A i \in 1..Len(arg.element[1].val[2]) : arg.element[1].val[2][i][1] # "List")
       => ret.n = WidthOf(DeclaredType(arg.element_def, arg.element[1].name)[2][1])
                  + Sum([i \in 1..Len(arg.element[1].val[2]) |->
                            WidthOf(arg.element[1].val[2][i][1])])

\* C10 witness: a document was written to a sink that accepted a text write
\* short, and the count returned is the number of bytes the sink holds
C10_Witness ==
    /\ call = "write_ply"
    /\ ret.kind = "Ok"
    /\ \E i \in 1..Len(ops) : ops[i].acc >= 0 /\ ops[i].acc < Len(ops[i].data)
    /\ Len(arg.payload) = 2
    /\ ret.n = Len(out)
    /\ Len(out) < Len(Offered)

====
